---- MODULE Spec2Model ----
(***************************************************************************)
(* Model of the Zulip channel plugin's gateway (src/src/plugin.js):        *)
(* gateway.startAccount registers an event queue, resolves the bot's own   *)
(* user id and runs the long-poll loop that feeds message events to the    *)
(* host's reply pipeline.  One step of the model is one stretch of code    *)
(* between two awaits (or one iteration of the for loop over the events).  *)
(* The Zulip server and the host runtime are the environment: every        *)
(* response, thrown error and reply payload is chosen by \E.               *)
(***************************************************************************)
EXTENDS Integers, Sequences, FiniteSets, TLC

\* ---------------------------------------------------------------- bounds
MaxEventId == 2
MaxBatch == 2
MaxPosts == 2

\* ------------------------------------------------------ program constants
BackoffMs == 5000

\* ------------------------------------------------------------- value sets
Sessions == {"s1", "s2"}
SoloSessions == {"s1"}

Undefined == "undefined"
NoRuntime == "null"
BotUserId == "bot"
OtherUserId == "u2"
QueueIds == {"q1", "q2"}

\* ctx.account of an invocation of startAccount: the first invocation is for
\* the default account, a second one for the same account or another one
NoAccountYet == "none"
AccountIds(s) == IF s = "s1" THEN {"default"} ELSE {"default", "work"}
EventIds == 1..MaxEventId
Cursors == 0..MaxEventId

\* event objects of GET /events: the fields the loop reads
ReactionEvent(i) ==
    [id |-> i, type |-> "reaction", sender_id |-> Undefined,
     mtype |-> Undefined, content |-> Undefined]
MessageEvent(i, snd, mt, c) ==
    [id |-> i, type |-> "message", sender_id |-> snd, mtype |-> mt, content |-> c]
Events ==
    UNION {{ReactionEvent(i),
            MessageEvent(i, BotUserId, "stream", "<p>hi</p>"),
            MessageEvent(i, OtherUserId, "stream", "<p>hi</p>"),
            MessageEvent(i, OtherUserId, "private", "<p>hi</p>"),
            MessageEvent(i, OtherUserId, "stream", Undefined)} : i \in EventIds}
\* result.events: each event of the queue is listed once, in any order
Batches ==
    {b \in UNION {[1..n -> Events] : n \in 0..MaxBatch} :
        \A i, j \in 1..Len(b) : i # j => b[i].id # b[j].id}

\* msg of a non-success response, as a sequence of words
Msgs == {<<"BAD_EVENT_QUEUE_ID">>,
         <<"queue", "gone:", "BAD_EVENT_QUEUE_ID", "q1">>,
         <<"Bad", "event", "queue", "ID">>}
\* names of the errors a failed request throws
NetworkErrorNames == {"TypeError"}
FetchErrorNames == {"TimeoutError", "TypeError"}

\* GET /messages responses of the context backfill
ContextResponses ==
    [result : {"success"}, messages : {Undefined, "empty", "some", "malformed"}] \cup
    [result : {"error"}, messages : {Undefined}]
NoContext == [result |-> "none", messages |-> Undefined]
ContextThrew == [result |-> "threw", messages |-> Undefined]

\* reply payloads handed to deliver
Payloads ==
    [kind : {"string"}, value : {"", "hi"}] \cup
    [kind : {"object"}, body : {Undefined, "", "hi"}, text : {Undefined, "ho"}]

NoReq == [queueId |-> "none", cursor |-> 0]
NoFetch == [outcome |-> "none", queueId |-> "none", cursor |-> 0, msg |-> <<>>]
NoReg == [ok |-> FALSE, queueId |-> "none", cursor |-> 0]
NoEvent == [id |-> 0, type |-> "none", sender_id |-> Undefined]
NoSend == [pos |-> 0, sender_id |-> Undefined, type |-> "none", content |-> ""]
NoOffer == [queueId |-> "none", cursors |-> {}]
NoCall == [fn |-> "none"]
NoResult == [kind |-> "none"]

VARIABLES
    pluginRuntime,      \* module-level runtime handle
    ctxAccount,         \* per session: ctx.account, the account it was started for
    pc,                 \* per session: where startAccount / poll stands
    queueId,            \* per session: let queueId
    lastEventId,        \* per session: let lastEventId
    myUserId,           \* per session: const myUserId
    aborted,            \* per session: ctx.abortSignal.aborted
    pending,            \* per session: events of result.events the for loop has not finished
    contextResult,      \* per session: const contextResult, until the dispatch starts
    threadStarterBody,  \* per session: let threadStarterBody of the current event
    inflight,           \* per session: reply-pipeline calls not yet settled
    held,               \* per session: reply scopes of the settled pipeline calls,
                        \* whose deliver and onError the pipeline still has,
                        \* recorded in the runs where it calls them
    posting,            \* per session: POST /messages requests of deliver in flight
    logged,             \* per session: ctx.log lines written by its latest step
    thrown,             \* per session: the part of the code that threw in its latest step
    called,             \* per session: which of register, users/me, events were requested
    startup,            \* per session: outcome of the register and /users/me calls
    lastReg,            \* per session: /register response since prev settled
    fetchReq,           \* per session: parameters of the /events request in flight
    prev,               \* per session: the latest /events request that settled without events
    regsSince,          \* per session: /register calls since prev completed
    sleptSince,         \* per session: ms slept since prev completed
    lastTaken,          \* per session: the latest event taken in the current iteration
    maxTaken,           \* per session: largest id the loop took on this queue
    lastSend,           \* per session: the POST /messages request its latest step
                        \* issued; pos is the place in the batch of the event whose
                        \* pipeline call has not settled, 0 once it has
    translated,         \* per session: ids of the queue whose message was translated,
                        \* recorded as long as aboveCursor holds
    aboveCursor,        \* per session: server only returned ids above the cursor sent
    watching,           \* whether maxTaken is recorded in this run
    following,          \* whether translated and aboveCursor are recorded in this run
    offered,            \* per session: the queue id of its latest successful registration
                        \* and the cursors the server has supplied for it
    tracing,            \* whether offered is recorded in this run
    calling,            \* whether the pipeline of this run calls deliver and onError
    auditing,           \* whether prev, regsSince and sleptSince are recorded in
                        \* this run
    fnCall,             \* a call of one of the plugin's functions: name and arguments
    fnResult            \* what that call returned or threw, once it has run

progVars == <<pluginRuntime, ctxAccount, pc, queueId, lastEventId, myUserId, aborted,
              pending, contextResult, threadStarterBody, inflight, held, posting>>
obsVars == <<logged, thrown, called, startup, lastReg, fetchReq, prev, regsSince,
             sleptSince, lastTaken, maxTaken, lastSend, translated,
             aboveCursor, watching, following, offered, tracing, calling,
             auditing>>
fnVars == <<fnCall, fnResult>>
vars == <<progVars, obsVars, fnVars>>

Max(a, b) == IF a >= b THEN a ELSE b

\* ------------------------------------------------- decisions of the code

\* String(result.msg).includes('BAD_EVENT_QUEUE_ID')
IncludesBadQueueId(msg) == \E i \in 1..Len(msg) : msg[i] = "BAD_EVENT_QUEUE_ID"

\* if (result.result !== 'success') { ... }
NonSuccessBranch(msg) == IF IncludesBadQueueId(msg) THEN "reregister" ELSE "backoff"

\* variants of the catch: no timeout case; no backoff at all
CatchBranchAlwaysBackoff(errName) == "backoff"
CatchBranchNeverBackoff(errName) == "continue"

\* catch (err) of the poll loop
CatchBranch(errName) == IF errName = "TimeoutError" THEN "continue" ELSE "backoff"

\* variant: the re-registration takes the new cursor and keeps the old queue id
HandleAfterReRegisterKeepsQueue(oldQueue, oldCursor, reg) ==
    IF reg.ok THEN [queueId |-> oldQueue, cursor |-> reg.cursor]
    ELSE [queueId |-> oldQueue, cursor |-> oldCursor]

\* variant: the re-registration replaces the queue id and keeps the old cursor
HandleAfterReRegisterKeepsCursor(oldQueue, oldCursor, reg) ==
    IF reg.ok THEN [queueId |-> reg.queueId, cursor |-> oldCursor]
    ELSE [queueId |-> oldQueue, cursor |-> oldCursor]

\* if (reReg.result === 'success') { queueId = ...; lastEventId = ...; }
HandleAfterReRegister(oldQueue, oldCursor, reg) ==
    IF reg.ok THEN [queueId |-> reg.queueId, cursor |-> reg.cursor]
    ELSE [queueId |-> oldQueue, cursor |-> oldCursor]

\* variant: the loop head does not look at the abort signal
LoopConditionIgnoresAbort(ab) == TRUE

\* while (!ctx.abortSignal?.aborted)
LoopCondition(ab) == ~ab

\* variant: a failed re-registration is followed by the backoff sleep
AfterReRegisterBacksOff(ok) == IF ok THEN "head" ELSE "sleeping"

\* variant: a failed re-registration ends the poller, as a failed first one does
AfterReRegisterGivesUp(ok) == IF ok THEN "head" ELSE "done"

\* continue after the re-registration, whatever its result
AfterReRegister(ok) == "head"

\* variant: the registration result is not checked
AfterRegisterUnchecked(result) == "identify"

\* if (registerResult.result !== 'success') { log; return; }
AfterRegister(result) == IF result # "success" THEN "return" ELSE "identify"

\* lastEventId = event.id, first statement of the for loop
AdvanceCursor(cursor, event, me) == event.id

\* variant: every event is taken for a message event
IsMessageEventAlways(event) == TRUE

\* if (event.type === 'message') { ... }
IsMessageEvent(event) == event.type = "message"

\* variant: only direct messages of the bot are filtered
IsSelfDirectOnly(event, me) == event.sender_id = me /\ event.mtype = "private"

\* if (msg.sender_id === myUserId) continue;
IsSelf(event, me) == event.sender_id = me

\* msg.content.replace(...) throws a TypeError unless content is a string
TranslationThrows(event) == event.content = Undefined

\* the context try block: what becomes of threadStarterBody
ContextThrows(resp) == resp.result = "success" /\ resp.messages = "malformed"
ContextBody(resp) ==
    IF resp.result = "success" /\ resp.messages = "some" THEN "context" ELSE Undefined

\* variant: the inner try block is missing, the throw reaches the outer catch
OnContextErrorEscapes == "outerCatch"

\* where control goes when a try block throws
OnContextError == "dispatch"
OnDispatchError == "nextEvent"
OnTranslateError == "outerCatch"

\* await runtime.channel.reply.dispatchReplyWithBufferedBlockDispatcher(...)
DispatchAwaited == TRUE

\* variant: || instead of ??, an empty body falls through to the text field
ReplyTextOr(p) ==
    IF p.kind = "string" THEN p.value
    ELSE IF p.body \notin {Undefined, ""} THEN p.body
    ELSE IF p.text \notin {Undefined, ""} THEN p.text
    ELSE ""

\* deliver: typeof payload === 'string' ? payload : (payload.body ?? payload.text ?? '')
ReplyText(p) ==
    IF p.kind = "string" THEN p.value
    ELSE IF p.body # Undefined THEN p.body
    ELSE IF p.text # Undefined THEN p.text
    ELSE ""

\* the for loop's step to the next event, or the end of the iteration
AfterEvent(b) ==
    IF Len(b) > 1 THEN [pc |-> "event", pending |-> Tail(b), logged |-> <<>>]
    ELSE [pc |-> "head", pending |-> <<>>, logged |-> <<>>]

\* the outer catch: the rest of result.events is abandoned
OuterCatch(errName) ==
    IF CatchBranch(errName) = "continue"
    THEN [pc |-> "head", pending |-> <<>>, logged |-> <<>>]
    ELSE [pc |-> "sleeping", pending |-> <<>>, logged |-> <<"error:poll-error">>]

\* the inner catch around the dispatch
DispatchCatch(b) ==
    IF OnDispatchError = "nextEvent"
    THEN [AfterEvent(b) EXCEPT !.logged = <<"error:dispatch">>]
    ELSE OuterCatch("Error")

\* a throw of the translation, which no inner try covers
TranslateCatch(b) ==
    IF OnTranslateError = "outerCatch" THEN OuterCatch("TypeError")
    ELSE [AfterEvent(b) EXCEPT !.logged = <<"error:dispatch">>]

\* a throw inside the context try block
ContextCatch(b) ==
    IF OnContextError = "dispatch"
    THEN [pc |-> "dispatch", pending |-> b, logged |-> <<"warn:context">>]
    ELSE OuterCatch("Error")

Set(f, s, v) == [f EXCEPT ![s] = v]

\* variant: queueId and lastEventId are declared at module level, one pair
\* for all invocations
HandleOfModule(s) == "s1"

\* let queueId, let lastEventId: variables of the invocation of startAccount
HandleOf(s) == s

\* a record of the run is updated only in a run that keeps it
Record(f, s, v) == IF watching THEN Set(f, s, v) ELSE f
Follow(f, s, v) == IF following THEN Set(f, s, v) ELSE f
Trace(f, s, v) == IF tracing THEN Set(f, s, v) ELSE f
Keep(f, s, v) == IF calling THEN Set(f, s, v) ELSE f
Audit(f, s, v) == IF auditing THEN Set(f, s, v) ELSE f

\* what a successful registration response supplies
Offer(q, c) == [queueId |-> q, cursors |-> {c}]
\* the ids of a fetch result, supplied for the queue id the fetch was sent with
OfferEvents(o, req, b) ==
    IF req.queueId = o.queueId
    THEN [o EXCEPT !.cursors = @ \cup {b[i].id : i \in 1..Len(b)}]
    ELSE o

\* ------------------------------------------------------------------ Init
GatewayInit ==
    /\ pluginRuntime = NoRuntime
    /\ ctxAccount = [s \in Sessions |-> NoAccountYet]
    /\ pc = [s \in Sessions |-> "idle"]
    /\ queueId = [s \in Sessions |-> "none"]
    /\ lastEventId = [s \in Sessions |-> 0]
    /\ myUserId = [s \in Sessions |-> Undefined]
    /\ aborted = [s \in Sessions |-> FALSE]
    /\ pending = [s \in Sessions |-> <<>>]
    /\ contextResult = [s \in Sessions |-> NoContext]
    /\ threadStarterBody = [s \in Sessions |-> Undefined]
    /\ inflight = [s \in Sessions |-> {}]
    /\ held = [s \in Sessions |-> {}]
    /\ posting = [s \in Sessions |-> 0]
    /\ logged = [s \in Sessions |-> <<>>]
    /\ thrown = [s \in Sessions |-> "none"]
    /\ called = [s \in Sessions |-> {}]
    /\ startup = [s \in Sessions |-> [reg |-> "none", me |-> "none"]]
    /\ lastReg = [s \in Sessions |-> NoReg]
    /\ fetchReq = [s \in Sessions |-> NoReq]
    /\ prev = [s \in Sessions |-> NoFetch]
    /\ regsSince = [s \in Sessions |-> 0]
    /\ sleptSince = [s \in Sessions |-> 0]
    /\ lastTaken = [s \in Sessions |-> NoEvent]
    /\ maxTaken = [s \in Sessions |-> 0]
    /\ lastSend = [s \in Sessions |-> NoSend]
    /\ translated = [s \in Sessions |-> {}]
    /\ aboveCursor = [s \in Sessions |-> TRUE]
    /\ offered = [s \in Sessions |-> NoOffer]

\* a run records none of the largest id taken, the translated ids and the
\* server's offers, or one of them
NoCalls == fnCall = NoCall /\ fnResult = NoResult
Unrecorded == watching = FALSE /\ following = FALSE /\ tracing = FALSE

\* the gateway with a pipeline that calls deliver and onError
Init == GatewayInit /\ Unrecorded /\ calling = TRUE /\ auditing = TRUE /\ NoCalls

\* the gateway with a pipeline that calls neither
PollInit == GatewayInit /\ Unrecorded /\ calling = FALSE /\ auditing = TRUE /\ NoCalls

\* the same with the record of the largest id taken
OrderInit ==
    /\ GatewayInit /\ watching = TRUE /\ following = FALSE /\ tracing = FALSE
    /\ calling = FALSE /\ auditing = TRUE /\ NoCalls

\* the same with the record of the ids that went into the translation
OnceInit ==
    /\ GatewayInit /\ watching = FALSE /\ following = TRUE /\ tracing = FALSE
    /\ calling = FALSE /\ auditing = TRUE /\ NoCalls

\* the same with the record of what the server supplied for the handle
HandleInit ==
    /\ GatewayInit /\ watching = FALSE /\ following = FALSE /\ tracing = TRUE
    /\ calling = FALSE /\ auditing = TRUE /\ NoCalls

\* --------------------------------------------------------------- actions

\* control leaves the current position for t; the per-event locals go out of scope
Goto(s, t) ==
    /\ pc' = Set(pc, s, t.pc)
    /\ pending' = Set(pending, s, t.pending)
    /\ logged' = Set(logged, s, t.logged)
    /\ threadStarterBody' = Set(threadStarterBody, s, Undefined)
    /\ lastSend' = Set(lastSend, s, NoSend)

\* a /events request has settled
Settle(s, p) ==
    /\ prev' = Audit(prev, s, p)
    /\ fetchReq' = Set(fetchReq, s, NoReq)
    /\ lastReg' = Set(lastReg, s, NoReg)
    /\ sleptSince' = Audit(sleptSince, s, 0)

Failed(s, outcome, msg) ==
    [outcome |-> outcome, queueId |-> fetchReq[s].queueId,
     cursor |-> fetchReq[s].cursor, msg |-> msg]

AllAbove(b, cursor) == \A i \in 1..Len(b) : b[i].id > cursor

\* setPluginRuntime(runtime), called by the host
SetPluginRuntime ==
    /\ UNCHANGED <<fnVars, watching, following, tracing, calling, auditing, offered, ctxAccount>>
    /\ pluginRuntime = NoRuntime
    /\ pluginRuntime' = "runtime"
    /\ UNCHANGED <<pc, queueId, lastEventId, myUserId, aborted, pending, contextResult,
                   threadStarterBody, inflight, held, posting, obsVars>>

\* the host fires ctx.abortSignal
Abort(s) ==
    /\ UNCHANGED <<fnVars, watching, following, tracing, calling, auditing, offered, ctxAccount>>
    /\ pc[s] \notin {"idle", "returned", "rejected", "done"}
    /\ ~aborted[s]
    /\ aborted' = Set(aborted, s, TRUE)
    /\ UNCHANGED <<pluginRuntime, pc, queueId, lastEventId, myUserId, pending,
                   contextResult, threadStarterBody, inflight, held, posting, obsVars>>

\* startAccount up to its first await: POST /register
StartAccount(s) ==
    /\ UNCHANGED <<fnVars, watching, following, tracing, calling, auditing, offered>>
    /\ lastSend' = Set(lastSend, s, NoSend)
    /\ pc[s] = "idle"
    /\ \E a \in AccountIds(s) : ctxAccount' = Set(ctxAccount, s, a)
    /\ UNCHANGED <<translated, aboveCursor>>
    /\ pc' = Set(pc, s, "registering")
    /\ logged' = Set(logged, s, <<"info:starting">>)
    /\ called' = Set(called, s, called[s] \cup {"register"})
    /\ UNCHANGED <<pluginRuntime, queueId, lastEventId, myUserId, aborted, pending,
                   contextResult, threadStarterBody, inflight, held, posting, thrown, startup, lastReg,
                   fetchReq, prev, regsSince, sleptSince, lastTaken, maxTaken>>

\* the initial /register settles; on success GET /users/me is issued
RegisterReturn(s) ==
    /\ UNCHANGED <<fnVars, watching, following, tracing, calling, auditing, ctxAccount>>
    /\ lastSend' = Set(lastSend, s, NoSend)
    /\ pc[s] = "registering"
    /\ UNCHANGED <<translated, aboveCursor>>
    /\ \/ /\ thrown' = Set(thrown, s, "none")
          /\ \E result \in {"success", "error"}, q \in QueueIds, c \in Cursors :
            IF AfterRegister(result) = "return"
            THEN /\ startup' = Set(startup, s, [startup[s] EXCEPT !.reg = "fail"])
                 /\ pc' = Set(pc, s, "returned")
                 /\ logged' = Set(logged, s, <<"error:register">>)
                 /\ UNCHANGED <<queueId, lastEventId, lastReg, called, offered>>
            ELSE /\ queueId' = Set(queueId, HandleOf(s),
                      IF result = "success" THEN q ELSE Undefined)
                 /\ lastEventId' = Set(lastEventId, HandleOf(s),
                      IF result = "success" THEN c ELSE 0)
                 /\ lastReg' = Set(lastReg, s,
                      IF result = "success" THEN [ok |-> TRUE, queueId |-> q, cursor |-> c]
                      ELSE NoReg)
                 /\ offered' = Trace(offered, s,
                      IF result = "success" THEN Offer(q, c) ELSE offered[s])
                 /\ startup' = Set(startup, s,
                      [startup[s] EXCEPT !.reg = IF result = "success" THEN "ok" ELSE "fail"])
                 /\ pc' = Set(pc, s, "identifying")
                 /\ logged' = Set(logged, s, <<>>)
                 /\ called' = Set(called, s, called[s] \cup {"users/me"})
       \/ /\ startup' = Set(startup, s, [startup[s] EXCEPT !.reg = "throw"])
          /\ pc' = Set(pc, s, "rejected")
          /\ logged' = Set(logged, s, <<>>)
          /\ thrown' = Set(thrown, s, "register")
          /\ UNCHANGED <<queueId, lastEventId, lastReg, called, offered>>
    /\ UNCHANGED <<pluginRuntime, myUserId, aborted, pending, contextResult,
                   threadStarterBody, inflight, held, posting, fetchReq, prev, regsSince, sleptSince,
                   lastTaken, maxTaken>>

\* /users/me settles; myUserId = meResult.user_id, then poll() is called
IdentifyReturn(s) ==
    /\ UNCHANGED <<fnVars, watching, following, tracing, calling, auditing, offered, ctxAccount>>
    /\ lastSend' = Set(lastSend, s, NoSend)
    /\ pc[s] = "identifying"
    /\ UNCHANGED <<translated, aboveCursor>>
    /\ \/ \E u \in {BotUserId, Undefined} :
            /\ myUserId' = Set(myUserId, s, u)
            /\ startup' = Set(startup, s,
                 [startup[s] EXCEPT !.me = IF u = Undefined THEN "nouser" ELSE "ok"])
            /\ pc' = Set(pc, s, "head")
            /\ thrown' = Set(thrown, s, "none")
       \/ /\ startup' = Set(startup, s, [startup[s] EXCEPT !.me = "throw"])
          /\ pc' = Set(pc, s, "rejected")
          /\ thrown' = Set(thrown, s, "identify")
          /\ UNCHANGED myUserId
    /\ logged' = Set(logged, s, <<>>)
    /\ UNCHANGED <<pluginRuntime, queueId, lastEventId, aborted, pending, contextResult,
                   threadStarterBody, inflight, held, posting, called, lastReg, fetchReq, prev,
                   regsSince, sleptSince, lastTaken, maxTaken>>

\* while (!ctx.abortSignal?.aborted) and the GET /events request
LoopHead(s) ==
    /\ UNCHANGED <<fnVars, watching, following, tracing, calling, auditing, offered, ctxAccount>>
    /\ lastSend' = Set(lastSend, s, NoSend)
    /\ pc[s] = "head"
    /\ UNCHANGED <<translated, aboveCursor>>
    /\ IF LoopCondition(aborted[s])
       THEN /\ pc' = Set(pc, s, "fetching")
            /\ fetchReq' = Set(fetchReq, s,
                 [queueId |-> queueId[HandleOf(s)], cursor |-> lastEventId[HandleOf(s)]])
            /\ called' = Set(called, s, called[s] \cup {"events"})
       ELSE /\ pc' = Set(pc, s, "done")
            /\ UNCHANGED <<fetchReq, called>>
    /\ logged' = Set(logged, s, <<>>)
    /\ thrown' = Set(thrown, s, "none")
    /\ lastTaken' = Set(lastTaken, s, NoEvent)
    /\ UNCHANGED <<pluginRuntime, queueId, lastEventId, myUserId, aborted, pending,
                   contextResult, threadStarterBody, inflight, held, posting, startup, lastReg, prev,
                   regsSince, sleptSince, maxTaken>>

\* GET /events settles with result.events, one of the lists in B
FetchEventsFrom(s, B) ==
    /\ UNCHANGED <<fnVars, watching, following, tracing, calling, auditing, ctxAccount>>
    /\ lastSend' = Set(lastSend, s, NoSend)
    /\ pc[s] = "fetching"
    /\ \E b \in B :
         /\ aboveCursor' = Follow(aboveCursor, s,
              aboveCursor[s] /\ AllAbove(b, fetchReq[s].cursor))
         /\ translated' = Follow(translated, s,
              IF aboveCursor[s] /\ AllAbove(b, fetchReq[s].cursor) THEN translated[s]
              ELSE {})
         /\ offered' = Trace(offered, s, OfferEvents(offered[s], fetchReq[s], b))
         /\ pc' = Set(pc, s, IF Len(b) = 0 THEN "head" ELSE "event")
         /\ pending' = Set(pending, s, b)
    /\ Settle(s, [NoFetch EXCEPT !.outcome = "events"])
    /\ regsSince' = Audit(regsSince, s, 0)
    /\ logged' = Set(logged, s, <<>>)
    /\ thrown' = Set(thrown, s, "none")
    /\ UNCHANGED <<pluginRuntime, queueId, lastEventId, myUserId, aborted, contextResult,
                   threadStarterBody, inflight, held, posting, called, startup,
                   lastTaken, maxTaken>>

FetchEvents(s) == FetchEventsFrom(s, Batches)

\* GET /events settles with result !== 'success'
FetchNonSuccess(s) ==
    /\ UNCHANGED <<fnVars, watching, following, tracing, calling, auditing, offered, ctxAccount>>
    /\ lastSend' = Set(lastSend, s, NoSend)
    /\ pc[s] = "fetching"
    /\ UNCHANGED <<translated, aboveCursor>>
    /\ \E m \in Msgs :
         /\ Settle(s, Failed(s, "nonsuccess", m))
         /\ IF NonSuccessBranch(m) = "reregister"
            THEN /\ pc' = Set(pc, s, "reregistering")
                 /\ logged' = Set(logged, s, <<"warn:queue-expired">>)
                 /\ regsSince' = Audit(regsSince, s, 1)
            ELSE /\ pc' = Set(pc, s, "sleeping")
                 /\ logged' = Set(logged, s, <<"error:poll-failed">>)
                 /\ regsSince' = Audit(regsSince, s, 0)
    /\ thrown' = Set(thrown, s, "none")
    /\ UNCHANGED <<pluginRuntime, queueId, lastEventId, myUserId, aborted, pending,
                   contextResult, threadStarterBody, inflight, held, posting, called, startup,
                   lastTaken, maxTaken>>

\* GET /events throws: the long-poll timeout or a transport error
FetchThrows(s) ==
    /\ UNCHANGED <<fnVars, watching, following, tracing, calling, auditing, offered, ctxAccount>>
    /\ lastSend' = Set(lastSend, s, NoSend)
    /\ pc[s] = "fetching"
    /\ UNCHANGED <<translated, aboveCursor>>
    /\ \E e \in FetchErrorNames :
         /\ Settle(s, Failed(s, IF e = "TimeoutError" THEN "timeout" ELSE "neterror", <<>>))
         /\ pc' = Set(pc, s, OuterCatch(e).pc)
         /\ logged' = Set(logged, s, OuterCatch(e).logged)
    /\ regsSince' = Audit(regsSince, s, 0)
    /\ thrown' = Set(thrown, s, "fetch")
    /\ UNCHANGED <<pluginRuntime, queueId, lastEventId, myUserId, aborted, pending,
                   contextResult, threadStarterBody, inflight, held, posting, called, startup,
                   lastTaken, maxTaken>>

\* the re-registration after a queue-invalid response settles
ReRegisterReturn(s) ==
    /\ UNCHANGED <<fnVars, watching, following, tracing, calling, auditing, ctxAccount>>
    /\ lastSend' = Set(lastSend, s, NoSend)
    /\ pc[s] = "reregistering"
    /\ \/ \E ok \in BOOLEAN, q \in QueueIds, c \in Cursors :
            LET reg == IF ok THEN [ok |-> TRUE, queueId |-> q, cursor |-> c] ELSE NoReg
                h == HandleAfterReRegister(queueId[HandleOf(s)],
                                           lastEventId[HandleOf(s)], reg)
            IN /\ queueId' = Set(queueId, HandleOf(s), h.queueId)
               /\ lastEventId' = Set(lastEventId, HandleOf(s), h.cursor)
               /\ lastReg' = Set(lastReg, s, reg)
               /\ offered' = Trace(offered, s, IF ok THEN Offer(q, c) ELSE offered[s])
               /\ logged' = Set(logged, s, IF ok THEN <<"info:re-registered">> ELSE <<>>)
               /\ pc' = Set(pc, s, AfterReRegister(ok))
               /\ lastTaken' = Set(lastTaken, s, IF ok THEN NoEvent ELSE lastTaken[s])
               /\ maxTaken' = Record(maxTaken, s, IF ok THEN 0 ELSE maxTaken[s])
               /\ aboveCursor' = Follow(aboveCursor, s, ok \/ aboveCursor[s])
               /\ translated' = Follow(translated, s, IF ok THEN {} ELSE translated[s])
               /\ thrown' = Set(thrown, s, "none")
       \/ \E e \in NetworkErrorNames :
            /\ pc' = Set(pc, s, OuterCatch(e).pc)
            /\ logged' = Set(logged, s, OuterCatch(e).logged)
            /\ thrown' = Set(thrown, s, "reregister")
            /\ UNCHANGED <<queueId, lastEventId, lastReg, lastTaken, maxTaken,
                           aboveCursor, translated, offered>>
    /\ UNCHANGED <<pluginRuntime, myUserId, aborted, pending, contextResult,
                   threadStarterBody, inflight, held, posting, called, startup, fetchReq, prev,
                   regsSince, sleptSince>>

\* await new Promise(r => setTimeout(r, 5000)) elapses
SleepDone(s) ==
    /\ UNCHANGED <<fnVars, watching, following, tracing, calling, auditing, offered, ctxAccount>>
    /\ lastSend' = Set(lastSend, s, NoSend)
    /\ pc[s] = "sleeping"
    /\ UNCHANGED <<translated, aboveCursor>>
    /\ pc' = Set(pc, s, "head")
    /\ sleptSince' = Audit(sleptSince, s, sleptSince[s] + BackoffMs)
    /\ logged' = Set(logged, s, <<>>)
    /\ thrown' = Set(thrown, s, "none")
    /\ UNCHANGED <<pluginRuntime, queueId, lastEventId, myUserId, aborted, pending,
                   contextResult, threadStarterBody, inflight, held, posting, called, startup, lastReg,
                   fetchReq, prev, regsSince, lastTaken, maxTaken>>

\* one turn of for (const event of result.events), up to the context request
ProcessEvent(s) ==
    /\ UNCHANGED <<fnVars, watching, following, tracing, calling, auditing, offered, ctxAccount>>
    /\ pc[s] = "event"
    /\ UNCHANGED aboveCursor
    /\ LET ev == Head(pending[s])
       IN /\ lastEventId' = Set(lastEventId, HandleOf(s),
               AdvanceCursor(lastEventId[HandleOf(s)], ev, myUserId[s]))
          /\ lastTaken' = Set(lastTaken, s,
               [id |-> ev.id, type |-> ev.type, sender_id |-> ev.sender_id])
          /\ maxTaken' = Record(maxTaken, s, Max(maxTaken[s], ev.id))
          /\ translated' = Follow(translated, s,
               IF IsMessageEvent(ev) /\ ~IsSelf(ev, myUserId[s]) /\ aboveCursor[s]
               THEN translated[s] \cup {ev.id}
               ELSE translated[s])
          /\ IF ~IsMessageEvent(ev) \/ IsSelf(ev, myUserId[s])
             THEN /\ Goto(s, AfterEvent(pending[s]))
                  /\ thrown' = Set(thrown, s, "none")
             ELSE IF TranslationThrows(ev)
             THEN /\ Goto(s, TranslateCatch(pending[s]))
                  /\ thrown' = Set(thrown, s, "translate")
             ELSE /\ Goto(s, [pc |-> "backfill", pending |-> pending[s],
                              logged |-> <<"info:received">>])
                  /\ thrown' = Set(thrown, s, "none")
    /\ UNCHANGED <<pluginRuntime, queueId, myUserId, aborted, contextResult, inflight, held, posting,
                   called, startup, lastReg, fetchReq, prev, regsSince, sleptSince>>

\* the context request settles; control enters the dispatch try block
BackfillReturn(s) ==
    /\ UNCHANGED <<fnVars, watching, following, tracing, calling, auditing, offered, ctxAccount>>
    /\ pc[s] = "backfill"
    /\ UNCHANGED <<translated, aboveCursor>>
    /\ \/ \E resp \in ContextResponses :
            /\ contextResult' = Set(contextResult, s, resp)
            /\ IF ContextThrows(resp)
               THEN /\ Goto(s, ContextCatch(pending[s]))
                    /\ thrown' = Set(thrown, s, "context")
               ELSE /\ threadStarterBody' = Set(threadStarterBody, s, ContextBody(resp))
                    /\ pc' = Set(pc, s, "dispatch")
                    /\ logged' = Set(logged, s, <<>>)
                    /\ thrown' = Set(thrown, s, "none")
                    /\ lastSend' = Set(lastSend, s, NoSend)
                    /\ UNCHANGED pending
       \/ /\ contextResult' = Set(contextResult, s, ContextThrew)
          /\ Goto(s, ContextCatch(pending[s]))
          /\ thrown' = Set(thrown, s, "context")
    /\ UNCHANGED <<pluginRuntime, queueId, lastEventId, myUserId, aborted, inflight, held, posting,
                   called, startup, lastReg, fetchReq, prev, regsSince, sleptSince,
                   lastTaken, maxTaken>>

\* getPluginRuntime, loadConfig, resolveAgentRoute, finalizeInboundContext and
\* the call of dispatchReplyWithBufferedBlockDispatcher
DispatchStart(s) ==
    /\ UNCHANGED <<fnVars, watching, following, tracing, calling, auditing, offered, ctxAccount>>
    /\ pc[s] = "dispatch"
    /\ UNCHANGED <<translated, aboveCursor>>
    /\ \/ /\ pluginRuntime # NoRuntime
          /\ inflight' = Set(inflight, s,
               inflight[s] \cup {[pos |-> Len(pending[s]), ev |-> Head(pending[s]),
                                  context |-> threadStarterBody[s]]})
          /\ thrown' = Set(thrown, s, "none")
          /\ IF DispatchAwaited
             THEN /\ pc' = Set(pc, s, "dispatching")
                  /\ logged' = Set(logged, s, <<>>)
                  /\ lastSend' = Set(lastSend, s, NoSend)
                  /\ UNCHANGED <<pending, threadStarterBody>>
             ELSE Goto(s, AfterEvent(pending[s]))
       \/ /\ Goto(s, DispatchCatch(pending[s]))
          /\ thrown' = Set(thrown, s, "dispatch")
          /\ UNCHANGED inflight
    /\ contextResult' = Set(contextResult, s, NoContext)
    /\ UNCHANGED <<pluginRuntime, queueId, lastEventId, myUserId, aborted, held, posting,
                   called, startup, lastReg, fetchReq, prev, regsSince, sleptSince,
                   lastTaken, maxTaken>>

\* const replyType = isStream ? 'stream' : 'private'
ReplyType(ev) == IF ev.mtype = "stream" THEN "stream" ELSE "private"

\* what the deliver of a pipeline call closes over: the scope of its message
ReplyScope(ev) == [sender_id |-> ev.sender_id, type |-> ReplyType(ev)]

\* the dispatcherOptions the pipeline has: those of the call that has not
\* settled, at its position in the batch, and those of the settled calls
Callbacks(s) ==
    {[pos |-> d.pos, scope |-> ReplyScope(d.ev)] : d \in inflight[s]} \cup
    {[pos |-> 0, scope |-> h] : h \in held[s]}

\* the pipeline calls deliver(payload): with an empty text it returns, else it
\* issues POST /messages and awaits the answer
Deliver(s) ==
    /\ UNCHANGED <<fnVars, watching, following, tracing, calling, auditing, offered, ctxAccount>>
    /\ UNCHANGED <<translated, aboveCursor>>
    /\ \E c \in Callbacks(s), replyText \in {ReplyText(p) : p \in Payloads} :
         IF replyText = ""
         THEN /\ lastSend' = Set(lastSend, s, NoSend)
              /\ UNCHANGED posting
         ELSE /\ posting[s] < MaxPosts
              /\ lastSend' = Set(lastSend, s,
                   [pos |-> c.pos, sender_id |-> c.scope.sender_id,
                    type |-> c.scope.type, content |-> replyText])
              /\ posting' = Set(posting, s, posting[s] + 1)
    /\ logged' = Set(logged, s, <<>>)
    /\ thrown' = Set(thrown, s, "none")
    /\ UNCHANGED <<pluginRuntime, pc, queueId, lastEventId, myUserId, aborted, pending,
                   contextResult, threadStarterBody, inflight, held, called, startup,
                   lastReg, fetchReq, prev, regsSince, sleptSince, lastTaken, maxTaken>>

\* a POST /messages of deliver settles: sendResult is checked, or the request
\* throws and deliver's promise rejects
SendReturn(s) ==
    /\ UNCHANGED <<fnVars, watching, following, tracing, calling, auditing, offered, ctxAccount>>
    /\ lastSend' = Set(lastSend, s, NoSend)
    /\ UNCHANGED <<translated, aboveCursor>>
    /\ posting[s] > 0
    /\ posting' = Set(posting, s, posting[s] - 1)
    /\ \E sendResult \in {"success", "error", "throw"} :
         /\ logged' = Set(logged, s,
              IF sendResult = "error" THEN <<"error:send-reply">> ELSE <<>>)
         /\ thrown' = Set(thrown, s, IF sendResult = "throw" THEN "deliver" ELSE "none")
    /\ UNCHANGED <<pluginRuntime, pc, queueId, lastEventId, myUserId, aborted, pending,
                   contextResult, threadStarterBody, inflight, held, called, startup,
                   lastReg, fetchReq, prev, regsSince, sleptSince, lastTaken, maxTaken>>

\* the pipeline calls onError(err)
PipelineOnError(s) ==
    /\ UNCHANGED <<fnVars, watching, following, tracing, calling, auditing, offered, ctxAccount>>
    /\ lastSend' = Set(lastSend, s, NoSend)
    /\ Callbacks(s) # {}
    /\ UNCHANGED <<translated, aboveCursor>>
    /\ logged' = Set(logged, s, <<"error:dispatch-error">>)
    /\ thrown' = Set(thrown, s, "none")
    /\ UNCHANGED <<progVars, called, startup, lastReg, fetchReq, prev, regsSince,
                   sleptSince, lastTaken, maxTaken>>

\* the pipeline's promise settles: it resolves, or rejects into the inner
\* catch; the pipeline still has the dispatcherOptions it was given
DispatchReturn(s) ==
    /\ UNCHANGED <<fnVars, watching, following, tracing, calling, auditing, offered, ctxAccount>>
    /\ UNCHANGED <<translated, aboveCursor>>
    /\ \E d \in inflight[s], rejected \in BOOLEAN :
         /\ inflight' = Set(inflight, s, inflight[s] \ {d})
         /\ held' = Keep(held, s, held[s] \cup {ReplyScope(d.ev)})
         /\ IF pc[s] = "dispatching" /\ d.pos = Len(pending[s])
            THEN /\ Goto(s, IF rejected THEN DispatchCatch(pending[s])
                            ELSE AfterEvent(pending[s]))
                 /\ thrown' = Set(thrown, s, IF rejected THEN "dispatch" ELSE "none")
            ELSE /\ lastSend' = Set(lastSend, s, NoSend)
                 /\ UNCHANGED <<pc, pending, logged, thrown, threadStarterBody>>
    /\ UNCHANGED <<pluginRuntime, queueId, lastEventId, myUserId, aborted, contextResult,
                   posting, called, startup, lastReg, fetchReq, prev, regsSince,
                   sleptSince, lastTaken, maxTaken>>

Next ==
    \/ SetPluginRuntime
    \/ \E s \in SoloSessions :
         \/ Abort(s)
         \/ StartAccount(s)
         \/ RegisterReturn(s)
         \/ IdentifyReturn(s)
         \/ LoopHead(s)
         \/ FetchEvents(s)
         \/ FetchNonSuccess(s)
         \/ FetchThrows(s)
         \/ ReRegisterReturn(s)
         \/ SleepDone(s)
         \/ ProcessEvent(s)
         \/ BackfillReturn(s)
         \/ DispatchStart(s)
         \/ Deliver(s)
         \/ SendReturn(s)
         \/ PipelineOnError(s)
         \/ DispatchReturn(s)

Spec == Init /\ [][Next]_vars

\* The steps of startAccount's own code, with a pipeline that never calls
\* deliver or onError.  The three steps left out write posting, lastSend,
\* logged and thrown and nothing else, and no step of startAccount reads
\* any of these.
PollNext ==
    \/ SetPluginRuntime
    \/ \E s \in SoloSessions :
         \/ Abort(s)
         \/ StartAccount(s)
         \/ RegisterReturn(s)
         \/ IdentifyReturn(s)
         \/ LoopHead(s)
         \/ FetchEvents(s)
         \/ FetchNonSuccess(s)
         \/ FetchThrows(s)
         \/ ReRegisterReturn(s)
         \/ SleepDone(s)
         \/ ProcessEvent(s)
         \/ BackfillReturn(s)
         \/ DispatchStart(s)
         \/ DispatchReturn(s)

PollSpec == PollInit /\ [][PollNext]_vars

\* the same steps, with the largest id taken recorded
OrderSpec == OrderInit /\ [][PollNext]_vars

\* the same steps, with the ids that went into the translation recorded
OnceSpec == OnceInit /\ [][PollNext]_vars

\* the same steps, with the server's offers for the handle recorded
HandleSpec == HandleInit /\ [][PollNext]_vars

\* Two invocations of startAccount, running concurrently.  Their steps are
\* those of the registration and of the poll loop up to the cursor advance,
\* in any interleaving; every request of either is answered whatever the
\* other one does.  In these runs a fetch returns at most one event, a
\* reaction, which the loop only counts, and the outcome of the latest fetch
\* is not recorded.
DuoBatches == {<<>>} \cup {<<ReactionEvent(i)>> : i \in EventIds}

DuoFetchEvents(s) == FetchEventsFrom(s, DuoBatches)

DuoInit == GatewayInit /\ Unrecorded /\ calling = FALSE /\ auditing = FALSE /\ NoCalls

DuoNext ==
    \E s \in Sessions :
        \/ Abort(s)
        \/ StartAccount(s)
        \/ RegisterReturn(s)
        \/ IdentifyReturn(s)
        \/ LoopHead(s)
        \/ DuoFetchEvents(s)
        \/ FetchNonSuccess(s)
        \/ FetchThrows(s)
        \/ ReRegisterReturn(s)
        \/ SleepDone(s)
        \/ ProcessEvent(s)

DuoSpec == DuoInit /\ [][DuoNext]_vars

\* the next step of the session's own code: the loop head, a request, timer or
\* pipeline call that settles, or the next turn of the for loop
Progress(s) ==
    \/ LoopHead(s)
    \/ FetchNonSuccess(s) \/ FetchThrows(s)
    \/ ReRegisterReturn(s)
    \/ SleepDone(s)
    \/ ProcessEvent(s)
    \/ BackfillReturn(s)
    \/ DispatchStart(s)
    \/ DispatchReturn(s)

\* every await of the loop settles: requests answer or fail, the long poll is
\* cut off by its 90 s timeout at the latest (that the server ever has events
\* to return is not assumed), timers fire, the pipeline's promise settles
FairSpec == PollSpec /\ \A s \in SoloSessions : WF_vars(Progress(s))

\* the steps the code brings about by itself or bounds in time: the loop
\* head, the next turn of the for loop, the call of the pipeline, the 5 s
\* timer, and the end of a long poll, which its 90 s timeout cuts off
Bounded(s) ==
    \/ LoopHead(s)
    \/ FetchNonSuccess(s) \/ FetchThrows(s)
    \/ SleepDone(s)
    \/ ProcessEvent(s)
    \/ DispatchStart(s)

\* nothing is assumed of the awaits that carry no timeout: the POST /register
\* of a re-registration, the context request and the reply pipeline may
\* settle or stay pending
TimedSpec == PollSpec /\ \A s \in SoloSessions : WF_vars(Bounded(s))

\* ------------------------------------------- the plugin's pure functions
\* Strings are sequences of characters; a value that may be null or undefined
\* carries its type.

MaxStrLen == 4
MaxTargetChunks == 2

Str(chars) == [t |-> "string", s |-> chars]
JsNull == [t |-> "null", s |-> <<>>]
JsUndefined == [t |-> "undefined", s |-> <<>>]

\* !value, for null, undefined and strings
Falsy(v) == v.t # "string" \/ v.s = <<>>

\* str.startsWith(prefix)
StartsWith(str, prefix) ==
    Len(str) >= Len(prefix) /\ SubSeq(str, 1, Len(prefix)) = prefix

\* str.slice(n)
Slice(str, n) == SubSeq(str, n + 1, Len(str))

StreamPrefix == <<"s", "t", "r", "e", "a", "m", ":">>
PrivatePrefix == <<"p", "r", "i", "v", "a", "t", "e", ":">>
ZulipPrefix == <<"z", "u", "l", "i", "p", ":">>

\* String(n) of a non-negative integer
DecimalDigits == <<"0", "1", "2", "3", "4", "5", "6", "7", "8", "9">>

RECURSIVE NumberToString(_)
NumberToString(n) ==
    IF n < 10 THEN <<DecimalDigits[n + 1]>>
    ELSE NumberToString(n \div 10) \o <<DecimalDigits[(n % 10) + 1]>>

\* variant: replace without the g flag removes the first tag only
StripFirstTag(str) ==
    IF \E i \in 1..Len(str) : str[i] = "<" /\ \E j \in i + 1..Len(str) : str[j] = ">"
    THEN LET i == CHOOSE i \in 1..Len(str) :
                    /\ str[i] = "<" /\ \E j \in i + 1..Len(str) : str[j] = ">"
                    /\ \A h \in 1..i - 1 :
                         ~(str[h] = "<" /\ \E j \in h + 1..Len(str) : str[j] = ">")
             j == CHOOSE j \in i + 1..Len(str) :
                    str[j] = ">" /\ \A k \in i + 1..j - 1 : str[k] # ">"
         IN SubSeq(str, 1, i - 1) \o SubSeq(str, j + 1, Len(str))
    ELSE str

\* the scan of /<[^>]*>/g from position i: a '<' matches up to the first '>'
\* after it; a '<' with no '>' after it is an ordinary character
RECURSIVE StripFrom(_, _)
StripFrom(str, i) ==
    IF i > Len(str) THEN <<>>
    ELSE IF str[i] = "<" /\ \E j \in i + 1..Len(str) : str[j] = ">"
    THEN LET j == CHOOSE j \in i + 1..Len(str) :
                    str[j] = ">" /\ \A k \in i + 1..j - 1 : str[k] # ">"
         IN StripFrom(str, j + 1)
    ELSE <<str[i]>> \o StripFrom(str, i + 1)

\* content.replace(/<[^>]*>/g, '')
StripTags(str) == StripFrom(str, 1)

\* normalizeTarget without the test for "private:"
NormalizeTargetStreamOnly(target) ==
    IF Falsy(target) THEN target
    ELSE IF StartsWith(target.s, StreamPrefix) THEN target
    ELSE Str(StreamPrefix \o target.s)

\* messaging.normalizeTarget
NormalizeTarget(target) ==
    IF Falsy(target) THEN target
    ELSE IF StartsWith(target.s, StreamPrefix) \/ StartsWith(target.s, PrivatePrefix)
    THEN target
    ELSE Str(StreamPrefix \o target.s)

\* variant: everything but a private message counts as a stream message
IsStreamUnlessPrivate(msg) == msg.type # "private"

\* const isStream = msg.type === 'stream'
IsStream(msg) == msg.type = "stream"

\* the translation of a message and the fields of the inbound context made of it
Translate(msg) ==
    [chatId |-> IF IsStream(msg) THEN StreamPrefix \o msg.display_recipient
                ELSE PrivatePrefix \o msg.sender_email,
     from |-> IF IsStream(msg) THEN ZulipPrefix \o msg.display_recipient
              ELSE ZulipPrefix \o NumberToString(msg.sender_id),
     text |-> StripTags(msg.content),
     ChatType |-> IF IsStream(msg) THEN "group" ELSE "direct",
     ThreadId |-> IF IsStream(msg) THEN Str(msg.subject) ELSE JsUndefined,
     GroupSubject |-> IF IsStream(msg) THEN Str(msg.display_recipient) ELSE JsUndefined]

\* one line of the backfilled history: `[${name}] ${content}${reactStr}`
ContextLine(m, me) ==
    [name |-> IF m.sender_id = me THEN "(bot)" ELSE m.sender_full_name,
     content |-> StripTags(m.content)]


\* the POST /messages request deliver makes for a payload, if any
NoRequest == [method |-> "none"]
DeliverRequest(msg, payload) ==
    LET replyTarget == IF IsStream(msg) THEN msg.display_recipient ELSE msg.sender_email
        replyType == IF IsStream(msg) THEN "stream" ELSE "private"
        replyTopic == IF IsStream(msg) THEN Str(msg.subject) ELSE JsUndefined
    IN IF ReplyText(payload) = "" THEN NoRequest
       ELSE [method |-> "POST", endpoint |-> "/messages", type |-> replyType,
             to |-> replyTarget,
             topic |-> IF Falsy(replyTopic) THEN JsUndefined ELSE replyTopic,
             content |-> ReplyText(payload)]

SupportedActions == {"send", "react", "read", "edit", "delete"}

\* variant: an unknown action is treated as a send
ActionBranchDefaultSend(action) == IF action \in SupportedActions THEN action ELSE "send"

\* the chain of if (action === '...') tests
ActionBranch(action) == IF action \in SupportedActions THEN action ELSE "unsupported"

NoAccount == "null"

\* result.result === 'success'
IsSuccess(resp) == resp.result = "success"

\* read: the map over result.messages throws unless every content is a string
ReadThrows(resp) == resp.messages = "malformed"

\* actions.handleAction, given the response of the one request it may make
HandleAction(account, action, params, resp) ==
    LET branch == ActionBranch(action)
        Value(hasOk, ok, error, messageId, messages, request) ==
            [kind |-> "returned", hasOk |-> hasOk, ok |-> ok, error |-> error,
             messageId |-> messageId, messages |-> messages, request |-> request]
        Plain(request) ==
            Value(TRUE, IsSuccess(resp), <<resp.msg>>, <<>>, Undefined, request)
        sendType == IF params.to.t = "string" /\ StartsWith(params.to.s, StreamPrefix)
                    THEN "stream" ELSE "private"
        sendTarget ==
            IF params.to.t # "string" THEN params.to
            ELSE IF StartsWith(params.to.s, StreamPrefix) THEN Str(Slice(params.to.s, 7))
            ELSE IF StartsWith(params.to.s, PrivatePrefix) THEN Str(Slice(params.to.s, 8))
            ELSE params.to
    IN IF account = NoAccount
       THEN Value(FALSE, FALSE, <<"No Zulip account configured">>, <<>>, Undefined,
                  NoRequest)
       ELSE IF branch = "send"
       THEN LET request == [method |-> "POST", endpoint |-> "/messages",
                            type |-> sendType, to |-> sendTarget]
            IN IF IsSuccess(resp)
               THEN Value(TRUE, TRUE, <<>>, NumberToString(resp.id), Undefined, request)
               ELSE Value(TRUE, FALSE, <<resp.msg>>, <<>>, Undefined, request)
       ELSE IF branch = "react"
       THEN Plain([method |-> IF params.remove THEN "DELETE" ELSE "POST",
                   endpoint |-> "/messages/{messageId}/reactions"])
       ELSE IF branch = "read"
       THEN LET request == [method |-> "GET", endpoint |-> "/messages"]
            IN IF IsSuccess(resp)
               THEN IF ReadThrows(resp)
                    THEN [kind |-> "thrown", name |-> "TypeError", request |-> request]
                    ELSE Value(TRUE, TRUE, <<>>, <<>>,
                               IF resp.messages = "some" THEN "some" ELSE "empty", request)
               ELSE Value(TRUE, FALSE, <<resp.msg>>, <<>>, Undefined, request)
       ELSE IF branch = "edit"
       THEN Plain([method |-> "PATCH", endpoint |-> "/messages/{messageId}"])
       ELSE IF branch = "delete"
       THEN Plain([method |-> "DELETE", endpoint |-> "/messages/{messageId}"])
       ELSE Value(FALSE, FALSE, <<"Unsupported action: ", action>>, <<>>, Undefined,
                  NoRequest)

\* ------------------------------------------------- inputs of the functions
General == <<"g", "e", "n", "e", "r", "a", "l">>
Intro == <<"i", "n", "t", "r", "o">>
SenderEmail == <<"u", "2", "@", "x", ".", "i", "o">>
HiMarkup == <<"<", "p", ">", "h", "i", "<", "/", "p", ">">>
HelloMarkup == <<"<", "p", ">", "H", "e", "l", "l", "o", " ", "<", "s",
    "t", "r", "o", "n", "g", ">", "w", "o", "r", "l", "d", "<", "/", "s",
    "t", "r", "o", "n", "g", ">", "!", "<", "/", "p", ">">>
HelloText == <<"H", "e", "l", "l", "o", " ", "w", "o", "r", "l", "d",
    "!">>

Alphabet == {"<", ">", "a"}
Contents ==
    UNION {[1..n -> Alphabet] : n \in 0..MaxStrLen} \cup {HiMarkup, HelloMarkup}

BotId == 1
Message(type, sender, content) ==
    [type |-> type, display_recipient |-> General, subject |-> Intro,
     sender_email |-> SenderEmail, sender_id |-> sender, sender_full_name |-> "Ann",
     content |-> content]
MessageTypes == {"stream", "private", "direct"}

RECURSIVE Flatten(_)
Flatten(chunks) == IF chunks = <<>> THEN <<>> ELSE Head(chunks) \o Flatten(Tail(chunks))

TargetChunks == {StreamPrefix, PrivatePrefix, <<"s", "t", "r", "e", "a", "m">>, <<":">>,
                 <<"g">>}
Targets ==
    {JsNull, JsUndefined} \cup
    {Str(Flatten(c)) : c \in UNION {[1..n -> TargetChunks] : n \in 0..MaxTargetChunks}}

Accounts == {NoAccount, "default"}
ActionNames == SupportedActions \cup {"unknown_action", "SEND"}
ActionParams ==
    [to : {Str(StreamPrefix \o General), Str(PrivatePrefix \o SenderEmail), Str(General),
           JsUndefined},
     remove : BOOLEAN]
\* responses of the Zulip API: an id on success, a msg on failure; the
\* messages of a read as in ContextResponses
ApiResponses ==
    [result : {"success"}, id : {789}, msg : {""},
     messages : {Undefined, "empty", "some", "malformed"}] \cup
    [result : {"error"}, id : {0}, msg : {"Stream not found"}, messages : {Undefined}]

Calls ==
    [fn : {"normalizeTarget"}, target : Targets] \cup
    [fn : {"translate"}, msg : {Message(t, 2, c) : t \in MessageTypes, c \in Contents}] \cup
    [fn : {"contextLine"}, m : {Message("stream", u, c) : u \in {BotId, 2}, c \in Contents}] \cup
    [fn : {"deliver"}, msg : {Message(t, 2, HiMarkup) : t \in MessageTypes},
     payload : Payloads] \cup
    [fn : {"handleAction"}, account : Accounts, action : ActionNames,
     params : ActionParams, resp : ApiResponses]

\* ------------------------------------------- the functions, one call each
FnInit ==
    /\ GatewayInit /\ Unrecorded /\ calling = FALSE /\ auditing = TRUE
    /\ fnCall \in Calls /\ fnResult = NoResult

Returns(fn, value) ==
    /\ fnCall.fn = fn
    /\ fnResult = NoResult
    /\ fnResult' = value
    /\ UNCHANGED <<fnCall, progVars, obsVars>>

CallNormalizeTarget ==
    Returns("normalizeTarget", [kind |-> "returned", value |-> NormalizeTarget(fnCall.target)])

CallTranslate ==
    Returns("translate", [kind |-> "returned", value |-> Translate(fnCall.msg)])

CallContextLine ==
    Returns("contextLine", [kind |-> "returned", value |-> ContextLine(fnCall.m, BotId)])

CallDeliver ==
    Returns("deliver",
            [kind |-> "returned", request |-> DeliverRequest(fnCall.msg, fnCall.payload)])

CallHandleAction ==
    Returns("handleAction",
            HandleAction(fnCall.account, fnCall.action, fnCall.params, fnCall.resp))

FnNext ==
    \/ CallNormalizeTarget
    \/ CallTranslate
    \/ CallContextLine
    \/ CallDeliver
    \/ CallHandleAction

FnSpec == FnInit /\ [][FnNext]_vars

\* ---------------------------------------------------------------- claims

\* C1 as stated: the stored cursor equals the largest event id seen so far
\* on the queue and never regresses; here for the ids the loop has gone
\* through, which are among those seen and hold the cursor's value.
C1_CursorIsMaxSeen ==
    \A s \in Sessions : maxTaken[s] # 0 => lastEventId[s] = maxTaken[s]

\* C2: an event authored by the bot's resolved user id is never in the
\* context backfill, the dispatch or the reply pipeline, no deliver the
\* pipeline has was made for one, and no outbound send answers one.
C2_SelfNeverDispatched ==
    \A s \in Sessions :
        myUserId[s] # Undefined =>
            /\ pc[s] \in {"backfill", "dispatch", "dispatching"}
                 => Head(pending[s]).sender_id # myUserId[s]
            /\ \A d \in inflight[s] : d.ev.sender_id # myUserId[s]
            /\ \A h \in held[s] : h.sender_id # myUserId[s]
            /\ lastSend[s] # NoSend => lastSend[s].sender_id # myUserId[s]

\* the bot's own message, first of a batch, was skipped and nothing was sent
\* for it; the pipeline has the deliver of an earlier message of the other user
C2_Witness ==
    \E s \in Sessions :
        /\ myUserId[s] = BotUserId
        /\ lastTaken[s].sender_id = BotUserId /\ lastEventId[s] = lastTaken[s].id
        /\ pc[s] = "event" /\ inflight[s] = {} /\ lastSend[s] = NoSend
        /\ Head(pending[s]).sender_id = OtherUserId
        /\ held[s] = {[sender_id |-> OtherUserId, type |-> "private"]}

\* the server's response reports the queue as invalid
QueueInvalid(p) ==
    p.outcome = "nonsuccess" /\ \E i \in DOMAIN p.msg : p.msg[i] = "BAD_EVENT_QUEUE_ID"

\* C3: when the previous fetch reported the queue as invalid, exactly one
\* register call was made before the fetch now in flight, and that fetch
\* carries the queue id and cursor the re-registration returned.
C3_ReRegisterOnceThenNewHandle ==
    \A s \in Sessions :
        (pc[s] = "fetching" /\ QueueInvalid(prev[s])) =>
            /\ regsSince[s] = 1
            /\ lastReg[s].ok =>
                 fetchReq[s] = [queueId |-> lastReg[s].queueId, cursor |-> lastReg[s].cursor]

C3_Witness ==
    \E s \in Sessions :
        /\ pc[s] = "fetching" /\ QueueInvalid(prev[s]) /\ lastReg[s].ok
        /\ prev[s].queueId = "q1" /\ prev[s].cursor = 0
        /\ fetchReq[s] = [queueId |-> "q2", cursor |-> 2]

\* C4: after a long-poll timeout the loop goes straight to its next fetch:
\* no sleep, no register call, no log line, same queue id and cursor.
C4_TimeoutRetriesAtOnce ==
    \A s \in Sessions :
        prev[s].outcome = "timeout" =>
            /\ pc[s] \in {"head", "fetching", "done"}
            /\ sleptSince[s] = 0 /\ regsSince[s] = 0
            /\ pc[s] \in {"head", "done"} =>
                 /\ logged[s] = <<>>
                 /\ queueId[s] = prev[s].queueId /\ lastEventId[s] = prev[s].cursor
            /\ pc[s] = "fetching" =>
                 fetchReq[s] = [queueId |-> prev[s].queueId, cursor |-> prev[s].cursor]

C4_Witness ==
    \E s \in Sessions :
        /\ pc[s] = "fetching" /\ prev[s].outcome = "timeout"
        /\ fetchReq[s].queueId = prev[s].queueId /\ fetchReq[s].cursor = 1

\* the previous fetch failed with a transient transport error
TransientFailure(p) ==
    p.outcome = "neterror" \/ (p.outcome = "nonsuccess" /\ ~QueueInvalid(p))

\* C5: after a thrown non-timeout error or a non-success response that is
\* not queue-invalid, 5000 ms were slept before the next fetch is issued.
C5_FailureBacksOff ==
    \A s \in Sessions :
        TransientFailure(prev[s]) =>
            /\ pc[s] \in {"sleeping", "head", "fetching", "done"}
            /\ pc[s] = "sleeping" => sleptSince[s] = 0
            /\ pc[s] \in {"head", "fetching"} => sleptSince[s] = 5000

C5_Witness ==
    \E s \in Sessions :
        /\ pc[s] = "fetching" /\ prev[s].outcome = "nonsuccess" /\ ~QueueInvalid(prev[s])
        /\ sleptSince[s] = 5000

\* C6: once the context request of a message has settled, whatever its
\* outcome, control is in the dispatch of that same message; a throw, a
\* non-success response or an empty history leave the context body absent.
C6_DispatchDespiteBackfillFailure ==
    \A s \in Sessions :
        contextResult[s] # NoContext =>
            /\ pc[s] = "dispatch"
            /\ pending[s] # <<>> /\ Head(pending[s]).id = lastTaken[s].id
            /\ (\/ thrown[s] = "context"
                \/ contextResult[s].result # "success"
                \/ contextResult[s].messages \in {Undefined, "empty"})
                 => threadStarterBody[s] = Undefined

C6_Witness ==
    \E s \in Sessions :
        /\ pc[s] = "dispatch" /\ contextResult[s] = ContextThrew
        /\ thrown[s] = "context" /\ logged[s] = <<"warn:context">>
        /\ threadStarterBody[s] = Undefined

\* a POST /messages of deliver throws in this step
SendThrows(s) == posting'[s] < posting[s] /\ thrown'[s] = "deliver"

C9_RegisterFailureStops ==
    \A s \in Sessions :
        startup[s].reg = "fail" =>
            /\ pc[s] = "returned"
            /\ logged[s] = <<"error:register">>
            /\ called[s] = {"register"}
            /\ inflight[s] = {} /\ pending[s] = <<>> /\ fetchReq[s] = NoReq

C9_Witness ==
    \E s \in Sessions : startup[s].reg = "fail" /\ pc[s] = "returned"

\* C10 as stated: when /users/me throws or returns no user id, no poll loop
\* is started: no fetch is issued and nothing is dispatched.
C10_NoLoopWithoutIdentity ==
    \A s \in Sessions :
        startup[s].me \in {"nouser", "throw"} =>
            /\ "events" \notin called[s]
            /\ pc[s] \in {"returned", "rejected"}
            /\ inflight[s] = {}

\* the for loop hands a message of the batch to the translation in this step
Translates(s) ==
    /\ pc[s] = "event"
    /\ Head(pending[s]).type = "message"
    /\ ~IsSelf(Head(pending[s]), myUserId[s])

\* the reply pipeline is called in this step
InvokesPipeline(s) == inflight'[s] # inflight[s] /\ inflight[s] \subseteq inflight'[s]

\* C11 as stated: as long as the server has only returned events with an id
\* above the cursor sent, no event id of the queue is translated twice (in a
\* session that resolved the bot's identity), and the pipeline is invoked
\* once, for the message just translated.
C11_NoEventTwice ==
    [][\A s \in Sessions :
         /\ (aboveCursor[s] /\ myUserId[s] # Undefined /\ Translates(s))
              => Head(pending[s]).id \notin translated[s]
         /\ InvokesPipeline(s) =>
              /\ pc[s] = "dispatch" /\ pc'[s] # "dispatch"
              /\ Head(pending[s]).id = lastTaken[s].id]_vars

\* positions of the poll loop
LoopPcs == {"head", "fetching", "reregistering", "sleeping", "event", "backfill",
            "dispatch", "dispatching"}

\* a GET /events request is issued in this step
IssuesFetch(s) == fetchReq[s] = NoReq /\ fetchReq'[s] # NoReq

\* C12: once the abort signal is set no further /events request is issued, the
\* loop ends only at its head, and it does end there once the iteration in
\* progress has run to its end.
C12_StopsOnAbort ==
    /\ [][\A s \in Sessions :
            /\ aborted[s] => ~IssuesFetch(s)
            /\ (pc[s] # "done" /\ pc'[s] = "done") => (pc[s] = "head" /\ aborted[s])]_vars
    /\ \A s \in SoloSessions : (aborted[s] /\ pc[s] \in LoopPcs) ~> (pc[s] = "done")

\* the signal came after the loop took event 2 from a fetch result; the loop
\* has ended at its head with no request and no pipeline call in flight
C12_Witness ==
    \E s \in Sessions :
        /\ pc[s] = "done" /\ aborted[s]
        /\ lastEventId[s] = 2 /\ prev[s].outcome = "events"
        /\ fetchReq[s] = NoReq /\ inflight[s] = {} /\ pending[s] = <<>>

\* C13 as stated: without the abort signal the loop never ends, whatever a
\* fetch, a re-registration or an event's processing ends in, and from every
\* position of the loop another /events request is issued later on.
C13_LoopNeverEndsOnItsOwn ==
    /\ [][\A s \in Sessions :
            (pc[s] \in LoopPcs /\ ~aborted[s]) => pc'[s] \in LoopPcs]_vars
    /\ \A s \in SoloSessions :
         (pc[s] \in LoopPcs \ {"fetching"}) ~> (pc[s] = "fetching" \/ aborted[s])

\* the positions at which the loop awaits a request or call without timeout
UntimedAwaits == {"reregistering", "backfill", "dispatching"}

\* C13 amended: without the abort signal the loop never ends, and either it
\* waits from some point on for ever at a request or call that has no
\* timeout, or from every position another /events request is issued later
\* on.
C13_NextFetchOnceSettled ==
    /\ [][\A s \in Sessions :
            (pc[s] \in LoopPcs /\ ~aborted[s]) => pc'[s] \in LoopPcs]_vars
    /\ \A s \in SoloSessions :
         \/ <>[](pc[s] \in UntimedAwaits)
         \/ (pc[s] \in LoopPcs \ {"fetching"}) ~> (pc[s] = "fetching" \/ aborted[s])

\* a fetch is in flight after a failed re-registration
C13_Witness ==
    \E s \in Sessions :
        /\ pc[s] = "fetching" /\ ~aborted[s]
        /\ QueueInvalid(prev[s]) /\ regsSince[s] = 1 /\ ~lastReg[s].ok

\* C14 as stated: a throw of the translation, the context backfill or the
\* dispatch of one event does not leave the for loop: the loop goes on with
\* that event or the next one of the batch, without a backoff.
C14_PerEventFailuresContained ==
    [][\A s \in Sessions :
         (/\ pc[s] \in {"event", "backfill", "dispatch", "dispatching"}
          /\ thrown'[s] \in {"translate", "context", "dispatch"})
            => /\ pc'[s] \in {"event", "dispatch", "head"}
               /\ pending'[s] \in {pending[s], Tail(pending[s])}]_vars

\* a function call has run
Done(fn) == fnCall.fn = fn /\ fnResult # NoResult

\* the text of a reply payload: the raw string, or its body field, else its
\* text field
PayloadText(p) ==
    IF p.kind = "string" THEN p.value
    ELSE IF p.body # Undefined THEN p.body
    ELSE IF p.text # Undefined THEN p.text
    ELSE ""

\* C15: deliver posts a message exactly when the text of the payload is not
\* empty; the message carries that text and goes to the stream and topic of
\* the triggering stream message, or to the sender's address otherwise.
C15_DeliverSink ==
    Done("deliver") =>
        LET msg == fnCall.msg
            req == fnResult.request
            text == PayloadText(fnCall.payload)
        IN /\ req.method = "POST" <=> text # ""
           /\ req.method = "POST" =>
                /\ req.endpoint = "/messages" /\ req.content = text
                /\ IF msg.type = "stream"
                   THEN /\ req.type = "stream" /\ req.to = msg.display_recipient
                        /\ req.topic = Str(msg.subject)
                   ELSE /\ req.type = "private" /\ req.to = msg.sender_email
                        /\ req.topic = JsUndefined

C15_Witness ==
    /\ Done("deliver")
    /\ fnCall.msg.type = "private"
    /\ fnCall.payload = [kind |-> "object", body |-> Undefined, text |-> "ho"]
    /\ fnResult.request.content = "ho" /\ fnResult.request.to = SenderEmail

\* C16: a stream message translates to the chatId "stream:" + stream name,
\* chat type "group" and its topic as thread id (stream general, topic intro,
\* content <p>hi</p> give stream:general, hi, intro); every other message
\* translates to "private:" + sender address, chat type "direct", no thread id.
C16_ScopeResolution ==
    Done("translate") =>
        LET msg == fnCall.msg
            t == fnResult.value
        IN /\ msg.type = "stream" =>
                /\ t.chatId = StreamPrefix \o msg.display_recipient
                /\ t.ChatType = "group" /\ t.ThreadId = Str(msg.subject)
           /\ msg.type # "stream" =>
                /\ t.chatId = PrivatePrefix \o msg.sender_email
                /\ t.ChatType = "direct" /\ t.ThreadId = JsUndefined
           /\ msg = Message("stream", 2, HiMarkup) =>
                /\ t.chatId = <<"s", "t", "r", "e", "a", "m", ":", "g", "e", "n", "e", "r", "a", "l">>
                /\ t.text = <<"h", "i">>
                /\ t.ThreadId = Str(<<"i", "n", "t", "r", "o">>)

C16_Witness ==
    /\ Done("translate")
    /\ fnCall.msg.type = "direct" /\ fnCall.msg.content = HiMarkup
    /\ fnResult.value.ChatType = "direct" /\ fnResult.value.text = <<"h", "i">>

\* str holds a '<', characters other than '>', and a '>'
HasTag(str) ==
    \E i \in 1..Len(str), j \in 1..Len(str) :
        /\ i < j /\ str[i] = "<" /\ str[j] = ">"
        /\ \A m \in i + 1..j - 1 : str[m] # ">"

\* position k of str lies in such a sequence
InTag(str, k) ==
    \E i \in 1..k, j \in k..Len(str) :
        /\ i < j /\ str[i] = "<" /\ str[j] = ">"
        /\ \A m \in i + 1..j - 1 : str[m] # ">"

\* the characters of str from position k on that lie in no such sequence
RECURSIVE OutsideTags(_, _)
OutsideTags(str, k) ==
    IF k > Len(str) THEN <<>>
    ELSE (IF InTag(str, k) THEN <<>> ELSE <<str[k]>>) \o OutsideTags(str, k + 1)

Stripping(in, out) ==
    /\ ~HasTag(out)
    /\ out = OutsideTags(in, 1)
    /\ ~HasTag(in) => out = in
    /\ in = HelloMarkup => out = HelloText

\* C17: the text of a translated message and the content of a history line
\* are the original content without its tag sequences: no tag sequence is
\* left, content without tags is unchanged, and the sample yields
\* "Hello world!".
C17_MarkupStripping ==
    /\ Done("translate") => Stripping(fnCall.msg.content, fnResult.value.text)
    /\ Done("contextLine") => Stripping(fnCall.m.content, fnResult.value.content)

C17_Witness ==
    /\ Done("contextLine")
    /\ fnCall.m.content = HelloMarkup /\ fnResult.value.content = HelloText

\* C18: normalizeTarget returns null, undefined and "" as they are, a target
\* that starts with "stream:" or "private:" as it is, and any other target
\* with "stream:" put in front; normalizing the result changes nothing.
C18_NormalizeTarget ==
    Done("normalizeTarget") =>
        LET target == fnCall.target
            out == fnResult.value
        IN /\ (target \in {JsNull, JsUndefined} \/ target = Str(<<>>)) => out = target
           /\ (/\ target.t = "string"
               /\ \/ StartsWith(target.s, StreamPrefix)
                  \/ StartsWith(target.s, PrivatePrefix)) => out = target
           /\ (/\ target.t = "string" /\ target.s # <<>>
               /\ ~StartsWith(target.s, StreamPrefix)
               /\ ~StartsWith(target.s, PrivatePrefix))
                 => out = Str(StreamPrefix \o target.s)
           /\ NormalizeTarget(out) = out

C18_Witness ==
    /\ Done("normalizeTarget")
    /\ fnCall.target = Str(<<"s", "t", "r", "e", "a", "m", "g">>)
    /\ fnResult.value = Str(StreamPrefix \o <<"s", "t", "r", "e", "a", "m", "g">>)

\* C19 as stated: for every action name outside send, react, read, edit and
\* delete, handleAction returns an error that holds "Unsupported action" and
\* makes no request.
C19_UnsupportedAction ==
    (Done("handleAction") /\ fnCall.action \notin {"send", "react", "read", "edit", "delete"})
        => /\ fnResult.kind = "returned"
           /\ fnResult.error[1] = "Unsupported action: "
           /\ fnResult.request = NoRequest

\* C19 amended: with an account configured, handleAction returns an error
\* that holds "Unsupported action" for every action name outside send, react,
\* read, edit and delete; without one it returns the error "No Zulip account
\* configured"; it makes no request in either case.
C19_UnsupportedActionConfigured ==
    (Done("handleAction") /\ fnCall.action \notin {"send", "react", "read", "edit", "delete"})
        => /\ fnResult.kind = "returned"
           /\ fnResult.request = NoRequest
           /\ fnResult.error =
                IF fnCall.account # NoAccount
                THEN <<"Unsupported action: ", fnCall.action>>
                ELSE <<"No Zulip account configured">>

C19_Witness ==
    /\ Done("handleAction")
    /\ fnCall.account = "default" /\ fnCall.action = "SEND"
    /\ fnResult.error = <<"Unsupported action: ", "SEND">>
    /\ fnResult.request = NoRequest

\* C20 as stated: for send, react, read, edit and delete with an account
\* configured, handleAction returns a value whose ok is true exactly when the
\* response's result is "success" (with the id as a string for send), and
\* whose error is the response's msg otherwise; it does not throw.
C20_ResultMapping ==
    (/\ Done("handleAction") /\ fnCall.account # NoAccount
     /\ fnCall.action \in {"send", "react", "read", "edit", "delete"})
        => /\ fnResult.kind = "returned"
           /\ fnResult.hasOk
           /\ fnResult.request # NoRequest
           /\ fnResult.ok <=> fnCall.resp.result = "success"
           /\ (fnCall.action = "send" /\ fnCall.resp.result = "success")
                => fnResult.messageId = <<"7", "8", "9">>
           /\ fnCall.resp.result # "success" => fnResult.error = <<fnCall.resp.msg>>

\* the for loop takes the next event of the batch in this step
TakesEvent(s) == pc[s] = "event" /\ lastTaken'[s] # lastTaken[s]

\* C26: an event whose type is not "message" sets the cursor to its id and
\* nothing else: the for loop goes on to the next event or to the loop head
\* with no request, no log line, no pipeline call and no outbound send; the
\* backfill, the dispatch and the pipeline only ever hold message events.
C26_NonMessageEventsOnlyAdvance ==
    /\ [](\A s \in Sessions :
            /\ pc[s] \in {"backfill", "dispatch", "dispatching"}
                 => Head(pending[s]).type = "message"
            /\ \A d \in inflight[s] : d.ev.type = "message")
    /\ [][\A s \in Sessions :
            (TakesEvent(s) /\ Head(pending[s]).type # "message") =>
                /\ lastEventId'[s] = Head(pending[s]).id
                /\ pending'[s] = Tail(pending[s])
                /\ pc'[s] = IF pending'[s] = <<>> THEN "head" ELSE "event"
                /\ inflight'[s] = inflight[s] /\ held'[s] = held[s]
                /\ posting'[s] = posting[s] /\ lastSend'[s] = NoSend
                /\ contextResult'[s] = contextResult[s]
                /\ called'[s] = called[s] /\ logged'[s] = <<>>]_vars

\* a reaction event with id 2 was the last event of a fetch result: the
\* cursor is 2, the iteration is over and no pipeline call is in flight
C26_Witness ==
    \E s \in Sessions :
        /\ lastTaken[s].type = "reaction" /\ lastTaken[s].id = 2
        /\ lastEventId[s] = 2 /\ prev[s].outcome = "events"
        /\ pc[s] = "head" /\ inflight[s] = {} /\ lastSend[s] = NoSend

\* the re-registration settles in this step with a response that is not a success
ReRegisterFails(s) ==
    /\ pc[s] = "reregistering" /\ pc'[s] # "reregistering"
    /\ thrown'[s] = "none" /\ ~lastReg'[s].ok

\* C25: a re-registration that answers without success leaves the queue id
\* and the cursor as they were and takes the loop to its head without a
\* sleep and without a log line; the fetch that follows carries the queue id
\* and cursor of the fetch that was answered with queue-invalid, each time.
C25_FailedReRegisterKeepsHandle ==
    /\ [][\A s \in Sessions :
            ReRegisterFails(s) =>
                /\ queueId'[s] = queueId[s] /\ lastEventId'[s] = lastEventId[s]
                /\ pc'[s] = "head" /\ sleptSince'[s] = 0 /\ logged'[s] = <<>>]_vars
    /\ [](\A s \in Sessions :
            /\ pc[s] = "reregistering" =>
                 /\ QueueInvalid(prev[s]) /\ sleptSince[s] = 0
                 /\ queueId[s] = prev[s].queueId /\ lastEventId[s] = prev[s].cursor
            /\ (pc[s] = "fetching" /\ QueueInvalid(prev[s]) /\ ~lastReg[s].ok
                   /\ sleptSince[s] = 0)
                 => fetchReq[s] = [queueId |-> prev[s].queueId, cursor |-> prev[s].cursor])

\* the fetch of queue q2 after cursor 1 was answered with queue-invalid, the
\* re-registration failed, and the same fetch is in flight again, unslept
C25_Witness ==
    \E s \in Sessions :
        /\ pc[s] = "fetching" /\ QueueInvalid(prev[s])
        /\ regsSince[s] = 1 /\ ~lastReg[s].ok /\ sleptSince[s] = 0
        /\ fetchReq[s] = [queueId |-> "q2", cursor |-> 1]
        /\ prev[s].queueId = "q2" /\ prev[s].cursor = 1

\* the cursor covers every id of the queue that went into the translation
Consumed(s, cursor) == \A i \in translated[s] : i <= cursor

\* the cursor is the id of the event being worked on, from before its
\* translation until its dispatch has settled
CursorAtEvent(s) ==
    pc[s] \in {"backfill", "dispatch", "dispatching"}
        => lastEventId[s] = Head(pending[s]).id

\* taking an event sets the cursor to its id, and no outcome of the backfill
\* or the dispatch changes the cursor
CursorSetFirst(s) ==
    /\ TakesEvent(s) => lastEventId'[s] = Head(pending[s]).id
    /\ pc[s] \in {"backfill", "dispatch", "dispatching"}
         => lastEventId'[s] = lastEventId[s]

\* C22 as stated: the cursor is set to the event's id before its translation,
\* backfill and dispatch; hence, the server only returning ids above the
\* cursor sent, every event that went into the translation, whatever became
\* of its dispatch, is below or at the cursor of every later fetch.
C22_AtMostOnce ==
    /\ [][\A s \in Sessions : CursorSetFirst(s)]_vars
    /\ [](\A s \in Sessions :
            /\ CursorAtEvent(s)
            /\ pc[s] = "head" => Consumed(s, lastEventId[s])
            /\ pc[s] = "fetching" => Consumed(s, fetchReq[s].cursor))

\* a /register response reporting success arrives in this step
Registers(s) == lastReg'[s].ok /\ lastReg'[s] # lastReg[s]

\* C21: the queue id changes only in a step in which a registration succeeds,
\* and then queue id and cursor are both taken from that one response; every
\* /events request carries the queue id of the session's latest successful
\* registration and, as cursor, the last_event_id of that registration or the
\* id of an event returned by a fetch sent with that queue id since.
C21_HandleReplacedAsAWhole ==
    /\ [][\A s \in Sessions :
            /\ queueId'[s] # queueId[s] => Registers(s)
            /\ Registers(s) =>
                 /\ queueId'[s] = lastReg'[s].queueId
                 /\ lastEventId'[s] = lastReg'[s].cursor]_vars
    /\ [](\A s \in Sessions :
            pc[s] = "fetching" =>
                /\ fetchReq[s].queueId = offered[s].queueId
                /\ fetchReq[s].cursor \in offered[s].cursors)

\* queue q2 was registered with cursor 1; the fetch in flight on q2 asks for
\* what comes after event 2, which the previous fetch on q2 returned
C21_Witness ==
    \E s \in Sessions :
        /\ pc[s] = "fetching" /\ fetchReq[s] = [queueId |-> "q2", cursor |-> 2]
        /\ offered[s] = [queueId |-> "q2", cursors |-> {1, 2}]
        /\ prev[s].outcome = "events"

\* the step leaves the handle, the cancellation state and the position of
\* session t as they are
Untouched(t) ==
    /\ queueId'[t] = queueId[t] /\ lastEventId'[t] = lastEventId[t]
    /\ aborted'[t] = aborted[t] /\ myUserId'[t] = myUserId[t]
    /\ pc'[t] = pc[t] /\ pending'[t] = pending[t] /\ fetchReq'[t] = fetchReq[t]

\* C23: with two sessions interleaving at their awaits, every step (a
\* registration, fetch, cursor advance, re-registration or cancellation of
\* one session) leaves the queue id, cursor, cancellation state and position
\* of the other session untouched and does not write the module's runtime
\* handle; a session's queue id changes only when its own /register response
\* arrives, to the queue id of that response, and each /events request
\* carries the session's own queue id and cursor.
C23_SessionsIndependent ==
    [][/\ \E s \in Sessions : \A t \in Sessions \ {s} : Untouched(t)
       /\ pluginRuntime' = pluginRuntime
       /\ \A s \in Sessions :
            /\ queueId'[s] # queueId[s]
                 => (Registers(s) /\ queueId'[s] = lastReg'[s].queueId)
            /\ IssuesFetch(s) =>
                 fetchReq'[s] = [queueId |-> queueId[s], cursor |-> lastEventId[s]]]_vars

\* the session of the default account, on queue q1, has event 2 of a fetch
\* result before it; the session of the other account, cancelled, has had
\* queue-invalid for its fetch on queue q2 and waits for its re-registration
C23_Witness ==
    /\ ctxAccount["s1"] = "default" /\ ctxAccount["s2"] = "work"
    /\ pc["s1"] = "event" /\ ~aborted["s1"] /\ queueId["s1"] = "q1"
    /\ Head(pending["s1"]).id = 2 /\ lastEventId["s1"] = 1
    /\ pc["s2"] = "reregistering" /\ aborted["s2"]
    /\ queueId["s2"] = "q2" /\ lastEventId["s2"] = 0

\* C24 as stated: two invocations of startAccount for the same account never
\* have their poll loops running at the same time.
C24_OneLoopPerAccount ==
    \A s, t \in Sessions :
        (s # t /\ ctxAccount[s] = ctxAccount[t])
            => ~(pc[s] \in LoopPcs /\ pc[t] \in LoopPcs)
====
